---- MODULE Spec2Model ----
(***************************************************************************)
(* Model of src/bot.py: the subtitle codec (parse_srt, create_srt), the    *)
(* translation pipeline (translate_text, translate_srt) and the two chat   *)
(* handlers that drive it (handle_document, translate_command).            *)
(*                                                                         *)
(* Text is modelled character by character: a str or a bytes object is a   *)
(* sequence of one-character strings.  Two tokens stand for more than one  *)
(* byte: "BOM" is the UTF-8 byte-order mark EF BB BF (the character U+FEFF *)
(* once decoded) and "xFF" is a byte that is not valid UTF-8.              *)
(***************************************************************************)
EXTENDS Integers, Sequences, FiniteSets, TLC

(***************************************************************************)
(* Characters                                                              *)
(***************************************************************************)
NL == "\n"

BOM == "BOM"

BadByte == "xFF"

Digits == {"0", "1", "2", "3", "4", "5", "6", "7", "8", "9"}

\* \d of the pattern (src/bot.py:40-41)
IsDigit(c) == c \in Digits

(***************************************************************************)
(* bytes.decode('utf-8-sig') and str.encode('utf-8')                       *)
(***************************************************************************)
\* A result of a call: either a value or the exception it raised.
Returned(v) == [exc |-> "none", value |-> v]

Raised(e) == [exc |-> e, value |-> <<>>]

\* A plausible slip: decoding as ASCII, which rejects every non-ASCII byte.
ascii_decode(b) ==
    IF \E k \in 1..Len(b) : b[k] \in {BOM, BadByte}
    THEN Raised("UnicodeDecodeError")
    ELSE Returned(b)

\* file_content.decode('utf-8-sig'): raises on invalid UTF-8, drops ONE
\* leading byte-order mark, keeps any later one as the character U+FEFF.
utf_8_sig_decode(b) ==
    IF \E k \in 1..Len(b) : b[k] = BadByte
    THEN Raised("UnicodeDecodeError")
    ELSE IF Len(b) >= 1 /\ b[1] = BOM
         THEN Returned(SubSeq(b, 2, Len(b)))
         ELSE Returned(b)

\* str.encode('utf-8'): every character of the model's alphabet encodes to
\* the bytes its token stands for (U+FEFF to EF BB BF, ASCII to itself).
utf_8_encode(s) == [k \in 1..Len(s) |-> IF s[k] = BOM THEN BOM ELSE s[k]]

(***************************************************************************)
(* The pattern of parse_srt, matched as re.finditer matches it             *)
(***************************************************************************)
\* s has the literal lit at position p
MatchLit(s, p, lit) ==
    /\ p + Len(lit) - 1 <= Len(s)
    /\ \A k \in 1..Len(lit) : s[p + k - 1] = lit[k]

\* \d{2}:\d{2}:\d{2},\d{3} at position p (12 characters)
MatchTimestamp(s, p) ==
    /\ p + 11 <= Len(s)
    /\ \A k \in {0, 1, 3, 4, 6, 7, 9, 10, 11} : IsDigit(s[p + k])
    /\ s[p + 2] = ":"
    /\ s[p + 5] = ":"
    /\ s[p + 8] = ","

\* (\d+): the position just after the run of digits that starts at p.  \d+ is
\* greedy and must be followed by \n, so only the whole run can match.
RECURSIVE DigitRunEnd(_, _)
DigitRunEnd(s, p) ==
    IF p <= Len(s) /\ IsDigit(s[p]) THEN DigitRunEnd(s, p + 1) ELSE p

\* (?=\n\n|\Z) at position e: a blank line follows, or the string ends
\* (Python's \Z matches only at the very end of the string).
Lookahead(s, e) ==
    \/ e = Len(s) + 1
    \/ e + 1 <= Len(s) /\ s[e] = NL /\ s[e + 1] = NL

\* (.+?) with DOTALL starting at t: the least end e > t (exclusive) at which
\* the lookahead holds; it always exists once one character is available.
RECURSIVE LazyTextEnd(_, _)
LazyTextEnd(s, e) ==
    IF Lookahead(s, e) THEN e ELSE LazyTextEnd(s, e + 1)

\* The whole pattern at start position p.
MatchAt(s, p) ==
    LET q == DigitRunEnd(s, p) IN
    /\ q > p
    /\ MatchLit(s, q, <<NL>>)
    /\ MatchTimestamp(s, q + 1)
    /\ MatchLit(s, q + 13, <<" ", "-", "-", ">", " ">>)
    /\ MatchTimestamp(s, q + 18)
    /\ MatchLit(s, q + 30, <<NL>>)
    /\ q + 31 <= Len(s)

\* Where the match that starts at p ends (exclusive).
MatchEnd(s, p) == LazyTextEnd(s, DigitRunEnd(s, p) + 32)

\* match.group(4).replace('\n', ' ')
ReplaceNewlines(t) == [k \in 1..Len(t) |-> IF t[k] = NL THEN " " ELSE t[k]]

\* The record appended for the match that starts at p (src/bot.py:48-53).
MatchRecord(s, p) ==
    LET q == DigitRunEnd(s, p) IN
    [index |-> SubSeq(s, p, q - 1),
     start |-> SubSeq(s, q + 1, q + 12),
     end   |-> SubSeq(s, q + 18, q + 29),
     text  |-> ReplaceNewlines(SubSeq(s, q + 31, MatchEnd(s, p) - 1))]

\* pattern.finditer: the leftmost match at or after pos, then on from its end.
RECURSIVE FindIter(_, _)
FindIter(s, pos) ==
    IF pos > Len(s) THEN <<>>
    ELSE IF MatchAt(s, pos)
         THEN <<MatchRecord(s, pos)>> \o FindIter(s, MatchEnd(s, pos))
         ELSE FindIter(s, pos + 1)

\* SubtitleTranslator.parse_srt
parse_srt(file_content) ==
    LET d == utf_8_sig_decode(file_content) IN
    IF d.exc # "none" THEN d ELSE Returned(FindIter(d.value, 1))

(***************************************************************************)
(* create_srt                                                              *)
(***************************************************************************)
\* f"{sub['index']}\n{sub['start']} --> {sub['end']}\n{sub['text']}\n"
FormatSub(sub) ==
    sub.index \o <<NL>> \o sub.start \o <<" ", "-", "-", ">", " ">> \o sub.end
        \o <<NL>> \o sub.text \o <<NL>>

\* '\n'.join(parts)
RECURSIVE JoinNL(_)
JoinNL(parts) ==
    IF Len(parts) = 0 THEN <<>>
    ELSE IF Len(parts) = 1 THEN parts[1]
    ELSE parts[1] \o <<NL>> \o JoinNL(Tail(parts))

\* A plausible slip: a newline appended after the joined blocks.
create_srt_trailing_newline(subs) ==
    utf_8_encode(JoinNL([k \in 1..Len(subs) |-> FormatSub(subs[k])]) \o <<NL>>)

\* SubtitleTranslator.create_srt (the bytes held by the BytesIO it returns)
create_srt(subs) ==
    utf_8_encode(JoinNL([k \in 1..Len(subs) |-> FormatSub(subs[k])]))

(***************************************************************************)
(* Input files.  A file is rendered from a description: an optional        *)
(* byte-order mark, blocks separated by one blank line, and what follows   *)
(* the last block.                                                         *)
(***************************************************************************)
MaxBlocks == 2

TS1 == <<"0", "0", ":", "0", "0", ":", "0", "1", ",", "0", "0", "0">>

TS2 == <<"0", "0", ":", "0", "0", ":", "0", "2", ",", "5", "0", "0">>

Arrow == <<" ", "-", "-", ">", " ">>

GoodTiming == TS1 \o Arrow \o TS2

\* the arrow separator is missing its second dash
BadTiming == TS1 \o <<" ", "-", ">", " ">> \o TS2

Hola == <<"H", "o", "l", "a">>

Mundo == <<"M", "u", "n", "d", "o">>

Hello == <<"H", "e", "l", "l", "o">>

World == <<"w", "o", "r", "l", "d">>

BlockKinds ==
    { [index |-> <<"1">>,      timing |-> GoodTiming, lines |-> <<Hola>>],
      [index |-> <<"0", "2">>, timing |-> GoodTiming, lines |-> <<Hello, World>>],
      [index |-> <<"a", "1">>, timing |-> GoodTiming, lines |-> <<Hola>>],
      [index |-> <<"x">>,      timing |-> GoodTiming, lines |-> <<Mundo>>],
      [index |-> <<"3">>,      timing |-> BadTiming,  lines |-> <<Mundo>>],
      [index |-> <<"4">>,      timing |-> GoodTiming, lines |-> <<<<BadByte>>>>] }

Trailers == { <<>>, <<NL>>, <<NL, NL>> }

BlockSeqs == UNION { [1..n -> BlockKinds] : n \in 0..MaxBlocks }

FileDescriptions ==
    [bom : BOOLEAN, blocks : BlockSeqs, trailer : Trailers]

RECURSIVE JoinWith(_, _)
JoinWith(parts, sep) ==
    IF Len(parts) = 0 THEN <<>>
    ELSE IF Len(parts) = 1 THEN parts[1]
    ELSE parts[1] \o sep \o JoinWith(Tail(parts), sep)

RenderBlock(b) == b.index \o <<NL>> \o b.timing \o <<NL>> \o JoinWith(b.lines, <<NL>>)

Render(d) ==
    (IF d.bom THEN <<BOM>> ELSE <<>>)
        \o JoinWith([k \in 1..Len(d.blocks) |-> RenderBlock(d.blocks[k])], <<NL, NL>>)
        \o d.trailer

(***************************************************************************)
(* Program constants and collaborators                                     *)
(***************************************************************************)
\* SubtitleTranslator.__init__
retry_delay == 5

max_retries == 3

batch_size == 5

\* googletrans.LANGUAGES: language code -> language name (two of its entries)
LANGUAGES == [code \in {<<"e", "n">>, <<"e", "s">>} |->
                 IF code = <<"e", "n">> THEN "english" ELSE "spanish"]

\* str.lower() on the letters the argument lists use
LowerChar(c) ==
    CASE c = "E" -> "e"
      [] c = "N" -> "n"
      [] c = "S" -> "s"
      [] OTHER -> c

Lower(a) == [k \in 1..Len(a) |-> LowerChar(a[k])]

\* self.translator.translate(text, dest=dest, src=src).text when the call
\* succeeds: the external service, here a stub that tags the text with the
\* destination language.
translate(text, dest) == dest \o <<":">> \o text

\* Python's None, the value every call of time.sleep returns
None == "None"

\* asyncio.sleep(d) would return an awaitable.
asyncio_sleep(d) == "coroutine"

\* sleep is time.sleep (from time import sleep): it blocks the calling thread
\* for d and returns None.
sleep(d) == None

\* `await v` resumes with v's result when v is awaitable and raises TypeError
\* ("object NoneType can't be used in 'await' expression") when it is not.
IsAwaitable(v) == v # None

\* random.uniform(0.5, 1.5), in tenths of a second
PacingTenths == {5, 10, 15}

\* A plausible slip: the except clause swallows the error and returns what
\* has been translated so far.
translate_srt_except_swallow(e, partial) == Returned(create_srt(partial))

\* except Exception as e: logger.error(...); raise
translate_srt_except(e, partial) == Raised(e)

(***************************************************************************)
(* Chat sessions, uploads and /translate arguments                         *)
(***************************************************************************)
Sessions == {"s1", "s2"}

Uploads ==
    { Render(d) : d \in
        { [bom |-> FALSE, trailer |-> <<NL>>,
           blocks |-> <<[index |-> <<"x">>, timing |-> GoodTiming, lines |-> <<Mundo>>]>>],
          [bom |-> FALSE, trailer |-> <<NL>>,
           blocks |-> <<[index |-> <<"1">>, timing |-> GoodTiming, lines |-> <<Hola>>]>>],
          [bom |-> TRUE, trailer |-> <<NL, NL>>,
           blocks |-> <<[index |-> <<"1">>, timing |-> GoodTiming, lines |-> <<Hola>>],
                        [index |-> <<"0", "2">>, timing |-> GoodTiming, lines |-> <<Hello, World>>]>>],
          [bom |-> FALSE, trailer |-> <<>>,
           blocks |-> <<[index |-> <<"4">>, timing |-> GoodTiming, lines |-> <<<<BadByte>>>>]>>] } }

\* context.args of a /translate command
ArgLists == { <<>>, <<<<"e", "n">>>>, <<<<"E", "S">>>>, <<<<"x", "x">>>> }

\* The replies of the handlers
ReplyReceived == [type |-> "text", text |-> "Archivo recibido. Responde con /translate seguido del codigo de idioma."]

ReplyNoFile == [type |-> "text", text |-> "Primero envia un archivo .srt"]

ReplyNoArgs == [type |-> "text", text |-> "Debes especificar el idioma destino. Ejemplo: /translate es"]

ReplyBadLang == [type |-> "text", text |-> "Idioma no valido. Usa /langs para ver opciones."]

ReplyTranslating(name) == [type |-> "text", text |-> "Traduciendo al", lang |-> name]

ReplyFailed == [type |-> "text", text |-> "Error al traducir el archivo. Intenta nuevamente."]

ReplyHelp == [type |-> "text", text |-> "Bot de Traduccion de Subtitulos", parse_mode |-> "Markdown"]

ReplyLangs == [type |-> "text", text |-> "Idiomas soportados:", langs |-> LANGUAGES, parse_mode |-> "Markdown"]

ReplyError == [type |-> "text", text |-> "Ocurrio un error. Por favor, intentalo nuevamente."]

ReplyFile(content, code, name) ==
    [type |-> "document", document |-> content,
     filename |-> <<"traducido_">> \o code \o <<".srt">>,
     caption |-> "Traduccion completada a", lang |-> name]

(***************************************************************************)
(* State                                                                   *)
(***************************************************************************)
VARIABLES
    cin,          \* codec runs: the description of the input file
    cstage,       \* codec runs: how far the run has got
    decoded,      \* parse_srt(x)
    decoded_bom,  \* parse_srt(BOM + x)
    encoded,      \* create_srt(parse_srt(x))
    redecoded,    \* parse_srt(create_srt(parse_srt(x)))
    user_data,        \* context.user_data of each session: a dict, key 'file'
    pc,               \* where each session's handler stands
    running,          \* the session whose job holds the thread, or "none"
    dest_lang,        \* translate_command: dest_lang
    subtitles,        \* translate_srt: subtitles
    i,                \* translate_srt: i, the start of the current batch
    batch,            \* translate_srt: batch
    translated_batch, \* translate_srt: translated_batch
    translated_subs,  \* translate_srt: translated_subs
    attempt,          \* translate_text: attempt
    error,            \* the exception in flight in the job, or "none"
    translated_file,  \* translate_command: the bytes of translated_file
    outbox,           \* the replies sent for the session's latest update
    context_args,     \* context.args of the session's latest update
    uploaded,         \* history: the file of the session's latest upload
    requests,         \* history: the records translate_text was called for
    calls,            \* history: calls of translator.translate in the job
    failures,         \* history: those calls that raised
    sleeps            \* history: the calls of sleep in the job

codec_vars == <<cin, cstage, decoded, decoded_bom, encoded, redecoded>>

job_vars == <<dest_lang, subtitles, i, batch, translated_batch, translated_subs,
              attempt, error, translated_file>>

history_vars == <<requests, calls, failures, sleeps>>

update_vars == <<context_args, uploaded>>

bot_vars == <<user_data, pc, running, outbox, job_vars, history_vars,
              update_vars>>

vars == <<codec_vars, bot_vars>>

\* the bytes of the input file of a codec run
file_content == Render(cin)

NotRun == Raised("not run")

EmptyDict == [k \in {} |-> <<>>]

InitBot ==
    /\ user_data = [s \in Sessions |-> EmptyDict]
    /\ pc = [s \in Sessions |-> "idle"]
    /\ running = "none"
    /\ outbox = [s \in Sessions |-> <<>>]
    /\ context_args = [s \in Sessions |-> <<>>]
    /\ uploaded = [s \in Sessions |-> <<>>]
    /\ dest_lang = [s \in Sessions |-> <<>>]
    /\ subtitles = [s \in Sessions |-> <<>>]
    /\ i = [s \in Sessions |-> 0]
    /\ batch = [s \in Sessions |-> <<>>]
    /\ translated_batch = [s \in Sessions |-> <<>>]
    /\ translated_subs = [s \in Sessions |-> <<>>]
    /\ attempt = [s \in Sessions |-> 0]
    /\ error = [s \in Sessions |-> "none"]
    /\ translated_file = [s \in Sessions |-> <<>>]
    /\ requests = [s \in Sessions |-> <<>>]
    /\ calls = [s \in Sessions |-> 0]
    /\ failures = [s \in Sessions |-> 0]
    /\ sleeps = [s \in Sessions |-> <<>>]

InitCodecIdle ==
    /\ cin = [bom |-> FALSE, blocks |-> <<>>, trailer |-> <<>>]
    /\ cstage = "unused"
    /\ decoded = NotRun
    /\ decoded_bom = NotRun
    /\ encoded = <<>>
    /\ redecoded = NotRun

(***************************************************************************)
(* Codec runs: decode x, decode BOM + x, encode, decode again              *)
(***************************************************************************)
InitCodec ==
    /\ cin \in FileDescriptions
    /\ cstage = "input"
    /\ decoded = NotRun
    /\ decoded_bom = NotRun
    /\ encoded = <<>>
    /\ redecoded = NotRun
    /\ InitBot

Decode ==
    /\ cstage = "input"
    /\ decoded' = parse_srt(file_content)
    /\ cstage' = "decoded"
    /\ UNCHANGED <<cin, decoded_bom, encoded, redecoded, bot_vars>>

DecodeWithBom ==
    /\ cstage = "decoded"
    /\ decoded_bom' = parse_srt(<<BOM>> \o file_content)
    /\ cstage' = "bom"
    /\ UNCHANGED <<cin, decoded, encoded, redecoded, bot_vars>>

Encode ==
    /\ cstage = "bom"
    /\ decoded.exc = "none"
    /\ encoded' = create_srt(decoded.value)
    /\ cstage' = "encoded"
    /\ UNCHANGED <<cin, decoded, decoded_bom, redecoded, bot_vars>>

Redecode ==
    /\ cstage = "encoded"
    /\ redecoded' = parse_srt(encoded)
    /\ cstage' = "redecoded"
    /\ UNCHANGED <<cin, decoded, decoded_bom, encoded, bot_vars>>

NextCodec == Decode \/ DecodeWithBom \/ Encode \/ Redecode

SpecCodec == InitCodec /\ [][NextCodec]_vars

(***************************************************************************)
(* The handlers up to the start of the job.  A handler runs on the event   *)
(* loop's thread until it awaits a call to Telegram; there it is suspended *)
(* and other sessions' handlers run.  Every call to Telegram (get_file,    *)
(* download_to_memory, reply_text, reply_document) returns or raises.  An  *)
(* exception that leaves a handler goes to error_handler (pc "error").     *)
(***************************************************************************)
HasFile(s) == "file" \in DOMAIN user_data[s]

\* A handler is dispatched for a session that has none in progress, while no
\* job holds the thread.
CanDispatch(s) == pc[s] = "idle" /\ running = "none"

\* A suspended handler goes on when the thread is free.
CanResume(s, at) == pc[s] = at /\ running = "none"

\* await update.message.reply_text(msg), sent being the replies made so far
\* for this update: the reply is delivered and the handler goes on to nxt, or
\* the call raises and nothing is delivered.
reply_text(s, sent, msg, nxt) ==
    \E ok \in BOOLEAN :
        /\ outbox' = [outbox EXCEPT ![s] = IF ok THEN Append(sent, msg) ELSE sent]
        /\ pc' = [pc EXCEPT ![s] = IF ok THEN nxt ELSE "error"]

\* start (/start and /help): the help text
start(s) ==
    /\ CanDispatch(s)
    /\ reply_text(s, <<>>, ReplyHelp, "idle")
    /\ context_args' = [context_args EXCEPT ![s] = <<>>]
    /\ UNCHANGED <<user_data, running, job_vars, history_vars, codec_vars,
                   uploaded>>

\* list_langs (/langs): the codes and names of LANGUAGES
list_langs(s) ==
    /\ CanDispatch(s)
    /\ reply_text(s, <<>>, ReplyLangs, "idle")
    /\ context_args' = [context_args EXCEPT ![s] = <<>>]
    /\ UNCHANGED <<user_data, running, job_vars, history_vars, codec_vars,
                   uploaded>>

\* handle_document is dispatched and suspends in
\* await update.message.document.get_file()
handle_document(s) ==
    /\ CanDispatch(s)
    /\ pc' = [pc EXCEPT ![s] = "get_file"]
    /\ outbox' = [outbox EXCEPT ![s] = <<>>]
    /\ context_args' = [context_args EXCEPT ![s] = <<>>]
    /\ UNCHANGED <<user_data, running, job_vars, history_vars, codec_vars,
                   uploaded>>

\* get_file returns, and the handler suspends in
\* await file.download_to_memory(file_bytes); or get_file raises
handle_document_get_file(s) ==
    /\ CanResume(s, "get_file")
    /\ \E ok \in BOOLEAN :
          pc' = [pc EXCEPT ![s] = IF ok THEN "download" ELSE "error"]
    /\ UNCHANGED <<user_data, running, outbox, job_vars, history_vars,
                   codec_vars, update_vars>>

\* download_to_memory raises
handle_document_download_raises(s) ==
    /\ CanResume(s, "download")
    /\ pc' = [pc EXCEPT ![s] = "error"]
    /\ UNCHANGED <<user_data, running, outbox, job_vars, history_vars,
                   codec_vars, update_vars>>

\* A plausible slip: an upload is stored only when no file is pending.
handle_document_keep_first(s, f) ==
    /\ CanResume(s, "download")
    /\ user_data' = [user_data EXCEPT ![s] =
                        IF HasFile(s) THEN @ ELSE [k \in {"file"} |-> f]]
    /\ uploaded' = [uploaded EXCEPT ![s] = <<f>>]
    /\ reply_text(s, <<>>, ReplyReceived, "idle")
    /\ UNCHANGED <<running, job_vars, history_vars, codec_vars, context_args>>

\* download_to_memory returns with the bytes f in file_bytes:
\* context.user_data['file'] = file_bytes, then the reply
handle_document_store(s, f) ==
    /\ CanResume(s, "download")
    /\ user_data' = [user_data EXCEPT ![s] = [k \in {"file"} |-> f]]
    /\ uploaded' = [uploaded EXCEPT ![s] = <<f>>]
    /\ reply_text(s, <<>>, ReplyReceived, "idle")
    /\ UNCHANGED <<running, job_vars, history_vars, codec_vars, context_args>>

\* translate_command: 'file' not in context.user_data
translate_command_no_file(s, args) ==
    /\ CanDispatch(s)
    /\ ~HasFile(s)
    /\ reply_text(s, <<>>, ReplyNoFile, "idle")
    /\ context_args' = [context_args EXCEPT ![s] = args]
    /\ UNCHANGED uploaded
    /\ UNCHANGED <<user_data, running, job_vars, history_vars, codec_vars>>

\* translate_command: not context.args
translate_command_no_args(s, args) ==
    /\ CanDispatch(s)
    /\ HasFile(s)
    /\ args = <<>>
    /\ reply_text(s, <<>>, ReplyNoArgs, "idle")
    /\ context_args' = [context_args EXCEPT ![s] = args]
    /\ UNCHANGED uploaded
    /\ UNCHANGED <<user_data, running, job_vars, history_vars, codec_vars>>

\* A plausible slip: an unknown code falls back to English and the job starts.
translate_command_bad_lang_fallback(s, args) ==
    /\ CanDispatch(s)
    /\ HasFile(s)
    /\ args # <<>>
    /\ Lower(args[1]) \notin DOMAIN LANGUAGES
    /\ reply_text(s, <<>>, ReplyTranslating(LANGUAGES[<<"e", "n">>]), "start")
    /\ dest_lang' = [dest_lang EXCEPT ![s] =
                        IF pc'[s] = "start" THEN <<"e", "n">> ELSE <<>>]
    /\ context_args' = [context_args EXCEPT ![s] = args]
    /\ UNCHANGED <<user_data, running, subtitles, i, batch, translated_batch,
                   translated_subs, attempt, error, translated_file,
                   history_vars, codec_vars, uploaded>>

\* translate_command: dest_lang not in LANGUAGES
translate_command_bad_lang(s, args) ==
    /\ CanDispatch(s)
    /\ HasFile(s)
    /\ args # <<>>
    /\ Lower(args[1]) \notin DOMAIN LANGUAGES
    /\ reply_text(s, <<>>, ReplyBadLang, "idle")
    /\ context_args' = [context_args EXCEPT ![s] = args]
    /\ UNCHANGED uploaded
    /\ UNCHANGED <<user_data, running, job_vars, history_vars, codec_vars>>

\* translate_command: all checks pass; reply "Traduciendo al ..." and suspend
\* in that reply's await.  When the reply raises the try block is not entered
\* and the handler's locals are gone.
translate_command_start(s, args) ==
    /\ CanDispatch(s)
    /\ HasFile(s)
    /\ args # <<>>
    /\ Lower(args[1]) \in DOMAIN LANGUAGES
    /\ reply_text(s, <<>>, ReplyTranslating(LANGUAGES[Lower(args[1])]), "start")
    /\ dest_lang' = [dest_lang EXCEPT ![s] =
                        IF pc'[s] = "start" THEN Lower(args[1]) ELSE <<>>]
    /\ context_args' = [context_args EXCEPT ![s] = args]
    /\ UNCHANGED uploaded
    /\ UNCHANGED <<user_data, running, subtitles, i, batch, translated_batch,
                   translated_subs, attempt, error, translated_file,
                   history_vars, codec_vars>>

\* error_handler: an exception left a handler; update.message is set, so the
\* error reply is sent.  When that reply raises too, the library logs it.
error_handler(s) ==
    /\ CanResume(s, "error")
    /\ \E ok \in BOOLEAN :
          outbox' = [outbox EXCEPT ![s] = IF ok THEN Append(@, ReplyError) ELSE @]
    /\ pc' = [pc EXCEPT ![s] = "idle"]
    /\ UNCHANGED <<user_data, running, job_vars, history_vars, codec_vars,
                   update_vars>>

(***************************************************************************)
(* translate_srt and translate_text, one step per call that can suspend    *)
(* or raise.  From StartJob to the reply that follows translate_srt no     *)
(* await of the job yields to the event loop: translator.translate and     *)
(* sleep are synchronous.                                                  *)
(* A job at "call" is inside translator.translate, a job at "backoff" or   *)
(* "pace" is inside time.sleep; the action that leaves the position is the *)
(* return of that call.  All the while the job holds the thread (running). *)
(***************************************************************************)
Min(a, b) == IF a <= b THEN a ELSE b

\* translate_command creates the SubtitleTranslator and calls translate_srt,
\* which calls parse_srt and sets up the loop.
\* A plausible slip: the pending file is kept in one place for all chats.
PendingFile_shared(s) ==
    IF HasFile("s1") THEN user_data["s1"]["file"] ELSE user_data[s]["file"]

\* file_content = context.user_data['file']
PendingFile(s) == user_data[s]["file"]

\* subtitles = self.parse_srt(file_content), for each file a session can
\* hold: the table is computed once, a job looks its file up in it.
parse_srt_of == [f \in Uploads |-> parse_srt(f)]

StartJob(s) ==
    /\ pc[s] = "start"
    /\ running = "none"
    /\ running' = s
    /\ LET r == parse_srt_of[PendingFile(s)] IN
        /\ subtitles' = [subtitles EXCEPT ![s] = r.value]
        /\ error' = [error EXCEPT ![s] = r.exc]
        /\ pc' = [pc EXCEPT ![s] = IF r.exc = "none" THEN "loop" ELSE "raised"]
    /\ i' = [i EXCEPT ![s] = 0]
    /\ batch' = [batch EXCEPT ![s] = <<>>]
    /\ translated_batch' = [translated_batch EXCEPT ![s] = <<>>]
    /\ translated_subs' = [translated_subs EXCEPT ![s] = <<>>]
    /\ attempt' = [attempt EXCEPT ![s] = 0]
    /\ translated_file' = [translated_file EXCEPT ![s] = <<>>]
    /\ requests' = [requests EXCEPT ![s] = <<>>]
    /\ calls' = [calls EXCEPT ![s] = 0]
    /\ failures' = [failures EXCEPT ![s] = 0]
    /\ sleeps' = [sleeps EXCEPT ![s] = <<>>]
    /\ UNCHANGED <<user_data, dest_lang, outbox, codec_vars, update_vars>>

\* for i in range(0, total_subs, self.batch_size): batch = subtitles[i:i + n]
StartBatch(s) ==
    /\ pc[s] = "loop"
    /\ running = s
    /\ i[s] < Len(subtitles[s])
    /\ batch' = [batch EXCEPT ![s] =
                    SubSeq(subtitles[s], i[s] + 1,
                           Min(i[s] + batch_size, Len(subtitles[s])))]
    /\ translated_batch' = [translated_batch EXCEPT ![s] = <<>>]
    /\ attempt' = [attempt EXCEPT ![s] = 0]
    /\ pc' = [pc EXCEPT ![s] = "call"]
    /\ UNCHANGED <<user_data, running, outbox, dest_lang, subtitles, i,
                   translated_subs, error, translated_file, history_vars,
                   codec_vars, update_vars>>

\* A plausible slip: the batch is walked from its end.
TextPosition_from_end(s) == Len(batch[s]) - Len(translated_batch[s])

\* the text translate_text is working on: the next one of the batch
TextPosition(s) == Len(translated_batch[s]) + 1

CurrentText(s) == batch[s][TextPosition(s)].text

\* translate_text is called once per text; its first attempt has attempt = 0
RequestsAfterCall(s) ==
    IF attempt[s] = 0
    THEN [requests EXCEPT ![s] = Append(@, i[s] + TextPosition(s))]
    ELSE requests

\* translator.translate returns: translate_text returns result.text, which
\* translate_srt appends to translated_batch
AttemptOk(s) ==
    /\ pc[s] = "call"
    /\ running = s
    /\ requests' = RequestsAfterCall(s)
    /\ calls' = [calls EXCEPT ![s] = @ + 1]
    /\ translated_batch' = [translated_batch EXCEPT ![s] =
                               Append(@, translate(CurrentText(s), dest_lang[s]))]
    /\ pc' = [pc EXCEPT ![s] = "pace"]
    /\ UNCHANGED <<user_data, running, outbox, dest_lang, subtitles, i, batch,
                   translated_subs, attempt, error, translated_file, failures,
                   sleeps, codec_vars, update_vars>>

\* A plausible slip: a failed call is retried at once, with no attempt limit.
AttemptFail_retry_forever(s) ==
    /\ pc[s] = "call"
    /\ running = s
    /\ requests' = RequestsAfterCall(s)
    /\ calls' = [calls EXCEPT ![s] = @ + 1]
    /\ failures' = [failures EXCEPT ![s] = @ + 1]
    /\ attempt' = [attempt EXCEPT ![s] = @ + 1]
    /\ UNCHANGED <<user_data, pc, running, outbox, dest_lang, subtitles, i,
                   batch, translated_batch, translated_subs, error,
                   translated_file, sleeps, codec_vars, update_vars>>

\* translator.translate raises: a backoff sleep if attempts remain, else the
\* loop ends and translate_text returns the original text
AttemptFail(s) ==
    /\ pc[s] = "call"
    /\ running = s
    /\ requests' = RequestsAfterCall(s)
    /\ calls' = [calls EXCEPT ![s] = @ + 1]
    /\ failures' = [failures EXCEPT ![s] = @ + 1]
    /\ IF attempt[s] < max_retries - 1
       THEN /\ pc' = [pc EXCEPT ![s] = "backoff"]
            /\ UNCHANGED translated_batch
       ELSE /\ pc' = [pc EXCEPT ![s] = "pace"]
            /\ translated_batch' = [translated_batch EXCEPT ![s] =
                                       Append(@, CurrentText(s))]
    /\ UNCHANGED <<user_data, running, outbox, dest_lang, subtitles, i, batch,
                   translated_subs, attempt, error, translated_file, sleeps,
                   codec_vars, update_vars>>

\* A plausible slip: the delay computed from attempt, not attempt + 1.
BackoffDelay_off_by_one(a) == retry_delay * a

\* self.retry_delay * (attempt + 1), in seconds, after the failed attempt
\* whose loop variable is a
BackoffDelay(a) == retry_delay * (a + 1)

\* await sleep(self.retry_delay * (attempt + 1)), inside the except clause of
\* translate_text: an exception raised here leaves translate_text
BackoffSleep(s) ==
    /\ pc[s] = "backoff"
    /\ running = s
    /\ LET d == BackoffDelay(attempt[s])
           v == sleep(d)
       IN /\ sleeps' = [sleeps EXCEPT ![s] =
                           Append(@, [kind |-> "backoff", tenths |-> 10 * d])]
          /\ IF IsAwaitable(v)
             THEN /\ attempt' = [attempt EXCEPT ![s] = @ + 1]
                  /\ pc' = [pc EXCEPT ![s] = "call"]
                  /\ UNCHANGED error
             ELSE /\ error' = [error EXCEPT ![s] = "TypeError"]
                  /\ pc' = [pc EXCEPT ![s] = "raised"]
                  /\ UNCHANGED attempt
    /\ UNCHANGED <<user_data, running, outbox, dest_lang, subtitles, i, batch,
                   translated_batch, translated_subs, translated_file,
                   requests, calls, failures, codec_vars, update_vars>>

\* the records of the batch with their translated texts (src/bot.py:78-85)
CommitBatch(s) ==
    [k \in 1..Len(translated_batch[s]) |->
        [index |-> batch[s][k].index,
         start |-> batch[s][k].start,
         end   |-> batch[s][k].end,
         text  |-> translated_batch[s][k]]]

\* await sleep(random.uniform(0.5, 1.5)) after each text; then the next text
\* of the batch, or the batch's records are appended and the loop goes on
PacingSleep(s) ==
    /\ pc[s] = "pace"
    /\ running = s
    /\ \E d \in PacingTenths :
        LET v == sleep(d) IN
        /\ sleeps' = [sleeps EXCEPT ![s] =
                         Append(@, [kind |-> "pacing", tenths |-> d])]
        /\ IF ~IsAwaitable(v)
           THEN /\ error' = [error EXCEPT ![s] = "TypeError"]
                /\ pc' = [pc EXCEPT ![s] = "raised"]
                /\ UNCHANGED <<attempt, translated_subs, i>>
           ELSE IF Len(translated_batch[s]) < Len(batch[s])
           THEN /\ attempt' = [attempt EXCEPT ![s] = 0]
                /\ pc' = [pc EXCEPT ![s] = "call"]
                /\ UNCHANGED <<error, translated_subs, i>>
           ELSE /\ translated_subs' = [translated_subs EXCEPT ![s] =
                                          @ \o CommitBatch(s)]
                /\ i' = [i EXCEPT ![s] = @ + batch_size]
                /\ pc' = [pc EXCEPT ![s] = "loop"]
                /\ UNCHANGED <<error, attempt>>
    /\ UNCHANGED <<user_data, running, outbox, dest_lang, subtitles, batch,
                   translated_batch, translated_file, requests, calls,
                   failures, codec_vars, update_vars>>

\* the loop is over: return self.create_srt(translated_subs)
ReturnFile(s) ==
    /\ pc[s] = "loop"
    /\ running = s
    /\ i[s] >= Len(subtitles[s])
    /\ translated_file' = [translated_file EXCEPT ![s] =
                              create_srt(translated_subs[s])]
    /\ pc' = [pc EXCEPT ![s] = "send"]
    /\ UNCHANGED <<user_data, running, outbox, dest_lang, subtitles, i, batch,
                   translated_batch, translated_subs, attempt, error,
                   history_vars, codec_vars, update_vars>>

\* translate_srt's except clause
Reraise(s) ==
    /\ pc[s] = "raised"
    /\ running = s
    /\ LET r == translate_srt_except(error[s], translated_subs[s]) IN
        IF r.exc # "none"
        THEN /\ pc' = [pc EXCEPT ![s] = "caught"]
             /\ UNCHANGED <<error, translated_file>>
        ELSE /\ pc' = [pc EXCEPT ![s] = "send"]
             /\ error' = [error EXCEPT ![s] = "none"]
             /\ translated_file' = [translated_file EXCEPT ![s] = r.value]
    /\ UNCHANGED <<user_data, running, outbox, dest_lang, subtitles, i, batch,
                   translated_batch, translated_subs, attempt, history_vars,
                   codec_vars, update_vars>>

\* translate_command returns: its locals, and the history kept of its job,
\* are gone
HandlerReturns(s) ==
    /\ dest_lang' = [dest_lang EXCEPT ![s] = <<>>]
    /\ subtitles' = [subtitles EXCEPT ![s] = <<>>]
    /\ i' = [i EXCEPT ![s] = 0]
    /\ batch' = [batch EXCEPT ![s] = <<>>]
    /\ translated_batch' = [translated_batch EXCEPT ![s] = <<>>]
    /\ translated_subs' = [translated_subs EXCEPT ![s] = <<>>]
    /\ attempt' = [attempt EXCEPT ![s] = 0]
    /\ error' = [error EXCEPT ![s] = "none"]
    /\ translated_file' = [translated_file EXCEPT ![s] = <<>>]
    /\ requests' = [requests EXCEPT ![s] = <<>>]
    /\ calls' = [calls EXCEPT ![s] = 0]
    /\ failures' = [failures EXCEPT ![s] = 0]
    /\ sleeps' = [sleeps EXCEPT ![s] = <<>>]

\* translate_command's except clause: the failure reply ends the handler; when
\* that reply raises, the exception leaves the handler
ReplyFailure(s) ==
    /\ pc[s] = "caught"
    /\ running \in {s, "none"}
    /\ reply_text(s, outbox[s], ReplyFailed, "idle")
    /\ running' = "none"
    /\ HandlerReturns(s)
    /\ UNCHANGED <<user_data, codec_vars, update_vars>>

\* await reply_document(InputFile(translated_file, filename=...), caption=...),
\* inside the try: the document is delivered and the handler ends, or the call
\* raises and the except clause is entered.  The await frees the thread.
ReplyDocument(s) ==
    /\ pc[s] = "send"
    /\ running = s
    /\ running' = "none"
    /\ \/ /\ outbox' = [outbox EXCEPT ![s] =
                           Append(@, ReplyFile(translated_file[s], dest_lang[s],
                                               LANGUAGES[dest_lang[s]]))]
          /\ pc' = [pc EXCEPT ![s] = "idle"]
          /\ HandlerReturns(s)
       \/ /\ pc' = [pc EXCEPT ![s] = "caught"]
          /\ UNCHANGED <<outbox, job_vars, history_vars>>
    /\ UNCHANGED <<user_data, codec_vars, update_vars>>

Init == InitBot /\ InitCodecIdle

Next ==
    \E s \in Sessions :
        \/ start(s)
        \/ list_langs(s)
        \/ handle_document(s)
        \/ handle_document_get_file(s)
        \/ handle_document_download_raises(s)
        \/ \E f \in Uploads : handle_document_store(s, f)
        \/ error_handler(s)
        \/ \E args \in ArgLists : translate_command_no_file(s, args)
        \/ \E args \in ArgLists : translate_command_no_args(s, args)
        \/ \E args \in ArgLists : translate_command_bad_lang(s, args)
        \/ \E args \in ArgLists : translate_command_start(s, args)
        \/ StartJob(s)
        \/ StartBatch(s)
        \/ AttemptOk(s)
        \/ AttemptFail(s)
        \/ BackoffSleep(s)
        \/ PacingSleep(s)
        \/ ReturnFile(s)
        \/ Reraise(s)
        \/ ReplyFailure(s)
        \/ ReplyDocument(s)

Spec == Init /\ [][Next]_vars

\* The steps a job takes once it holds the thread
JobStep(s) ==
    \/ StartBatch(s)
    \/ AttemptOk(s)
    \/ AttemptFail(s)
    \/ BackoffSleep(s)
    \/ PacingSleep(s)
    \/ ReturnFile(s)
    \/ Reraise(s)
    \/ ReplyFailure(s)
    \/ ReplyDocument(s)

\* The event loop resumes a handler that is ready (first in, first out, so a
\* handler waiting for the thread is not overtaken for ever), and every call
\* a job makes comes back: the translator answers or fails, a sleep ends.
SpecFair ==
    /\ Spec
    /\ \A s \in Sessions : SF_vars(StartJob(s)) /\ WF_vars(JobStep(s))

(***************************************************************************)
(* Properties                                                              *)
(***************************************************************************)
\* translate_srt has ended: it is raising, or it has returned its file
JobEnded(s) == pc[s] \in {"raised", "send"}

\* parse_srt decoded the job's file (it did not raise)
Parsed(s) == error[s] # "UnicodeDecodeError"

SameTiming(a, b) == a.index = b.index /\ a.start = b.start /\ a.end = b.end

\* C1: for every decoded record sequence, translate_srt yields an output of
\* exactly len(records) records, in order, each with the index, start and end
\* of the input record at its position.
C1_OrderAndCardinality ==
    \A s \in Sessions :
        (JobEnded(s) /\ Parsed(s)) =>
            /\ pc[s] = "send"
            /\ Len(translated_subs[s]) = Len(subtitles[s])
            /\ \A k \in 1..Len(subtitles[s]) :
                   SameTiming(translated_subs[s][k], subtitles[s][k])

\* C2: when every call of the translator succeeds, a job on n >= 1 records
\* completes without error and output record k carries the translator's
\* result for the text of input record k.
C2_PositionalMapping ==
    \A s \in Sessions :
        (JobEnded(s) /\ Len(subtitles[s]) >= 1 /\ failures[s] = 0) =>
            /\ pc[s] = "send"
            /\ Len(translated_subs[s]) = Len(subtitles[s])
            /\ \A k \in 1..Len(subtitles[s]) :
                   translated_subs[s][k].text =
                       translate(subtitles[s][k].text, dest_lang[s])

\* C3: when every call of the translator fails, the job still completes
\* without raising and every output record keeps the original text.
C3_IdentityFallback ==
    \A s \in Sessions :
        (JobEnded(s) /\ Len(subtitles[s]) >= 1 /\ failures[s] = calls[s]) =>
            /\ pc[s] = "send"
            /\ Len(translated_subs[s]) = Len(subtitles[s])
            /\ \A k \in 1..Len(subtitles[s]) :
                   translated_subs[s][k].text = subtitles[s][k].text

\* C4: for every input that decodes into at least one record, decoding the
\* encoding of the decoded records gives the same records, field by field.
C4_RoundTrip ==
    (cstage = "redecoded" /\ Len(decoded.value) >= 1) => redecoded = decoded

NoDocument(box) == \A k \in 1..Len(box) : box[k].type # "document"

\* C5: once an error escapes the per-text retry, translate_srt raises to its
\* caller, no further translator call is made, no document is sent, the only
\* reply made is the failure reply, and the handler ends with it (or with
\* the exception of that reply, when Telegram refuses it).
C5_AbortWithoutPartialOutput ==
    [][\A s \in Sessions :
          error[s] # "none" =>
              /\ pc'[s] \in {"raised", "caught", "idle", "error"}
              /\ calls'[s] <= calls[s]
              /\ NoDocument(outbox'[s])
              /\ outbox'[s] \in {outbox[s], Append(outbox[s], ReplyFailed)}
              /\ (pc'[s] = "idle" =>
                     outbox'[s][Len(outbox'[s])] = ReplyFailed)]_vars

\* a job failed and its handler ended with the failure reply, nothing else
C5_Witness ==
    \E s \in Sessions :
        /\ pc[s] = "idle"
        /\ Len(outbox[s]) = 2
        /\ outbox[s][2] = ReplyFailed
        /\ Len(parse_srt(user_data[s]["file"]).value) = 2

\* translate_srt is running or has just ended, its caller not yet
InJob(s) ==
    pc[s] \in {"loop", "call", "backoff", "pace", "raised", "caught", "send"}

\* the session's pending file decodes to zero records
ZeroRecords(s) == HasFile(s) /\ parse_srt(user_data[s]["file"]) = Returned(<<>>)

\* C6: when the input decodes to zero records, the job calls the translator
\* never, sleeps never, raises nothing and returns an empty file.
C6_ZeroRecordsNoOp ==
    \A s \in Sessions :
        /\ (InJob(s) /\ ZeroRecords(s)) =>
              /\ pc[s] \in {"loop", "send", "caught"}
              /\ calls[s] = 0
              /\ requests[s] = <<>>
              /\ sleeps[s] = <<>>
              /\ error[s] = "none"
              /\ (pc[s] \in {"send", "caught"} => translated_file[s] = <<>>)
        /\ ZeroRecords(s) =>
              \A k \in 1..Len(outbox[s]) :
                  outbox[s][k].type = "document" => outbox[s][k].document = <<>>

\* a job on a file of zero records has sent its (empty) document
C6_Witness ==
    \E s \in Sessions :
        /\ pc[s] = "idle"
        /\ ZeroRecords(s)
        /\ Len(outbox[s]) = 2
        /\ outbox[s][2].type = "document"
        /\ outbox[s][2].document = <<>>

\* C7: the batches partition the records: translate_text is called for every
\* record exactly once, in input order.
C7_EveryRecordTranslatedOnce ==
    \A s \in Sessions :
        (JobEnded(s) /\ Parsed(s)) =>
            requests[s] = [k \in 1..Len(subtitles[s]) |-> k]

IsDigits(line) == Len(line) >= 1 /\ \A k \in 1..Len(line) : IsDigit(line[k])

ValidBytes(b) == \A k \in 1..Len(b.lines) : \A c \in 1..Len(b.lines[k]) :
                     b.lines[k][c] # BadByte

WellFormed(b) == IsDigits(b.index) /\ b.timing = GoodTiming /\ ValidBytes(b)

\* a block that is malformed only in its index line
BadIndexOnly(b) == ~IsDigits(b.index) /\ b.timing = GoodTiming /\ ValidBytes(b)

\* C8: a block whose index line is not purely digits yields no record, and
\* the well-formed blocks after it decode as they do without it.
C8_MalformedIndexSkipped ==
    (/\ cstage = "decoded"
     /\ Len(cin.blocks) >= 2
     /\ BadIndexOnly(cin.blocks[1])
     /\ \A k \in 2..Len(cin.blocks) : WellFormed(cin.blocks[k]))
    => decoded = parse_srt(Render([cin EXCEPT !.blocks = Tail(@)]))

\* C9: the text of every decoded block is its text lines joined by single
\* spaces, with nothing before or after.
C9_MultiLineCollapse ==
    (/\ cstage = "decoded"
     /\ \A k \in 1..Len(cin.blocks) : WellFormed(cin.blocks[k]))
    => /\ decoded.exc = "none"
       /\ Len(decoded.value) = Len(cin.blocks)
       /\ \A k \in 1..Len(cin.blocks) :
              decoded.value[k].text = JoinWith(cin.blocks[k].lines, <<" ">>)

\* C10: parse_srt of an input prefixed with a byte-order mark returns what
\* parse_srt of the input returns.
C10_BomTolerance ==
    cstage \in {"bom", "encoded", "redecoded"} => decoded_bom = decoded

\* an input without a mark that decodes to two records, decoded both ways
C10_Witness ==
    /\ cstage = "bom"
    /\ ~cin.bom
    /\ decoded.exc = "none"
    /\ Len(decoded.value) = 2
    /\ decoded_bom = decoded

\* the code given with the session's latest /translate is not a recognized one
UnrecognizedCode(s) ==
    context_args[s] # <<>> /\ Lower(context_args[s][1]) \notin DOMAIN LANGUAGES

RecognizedCode(s) ==
    context_args[s] # <<>> /\ Lower(context_args[s][1]) \in DOMAIN LANGUAGES

\* What the chat has got for an update whose only reply Telegram refused:
\* nothing, or error_handler's reply.
Refused == {<<>>, <<ReplyError>>}

\* C11 (as claimed): translate_srt is invoked only for a recognized code; for
\* an unrecognized code no translator call is made and the reply points to
\* the list of supported codes.
C11_ValidationPrecedesPipeline ==
    \A s \in Sessions :
        /\ (pc[s] = "start" \/ InJob(s)) =>
              RecognizedCode(s) /\ dest_lang[s] \in DOMAIN LANGUAGES
        /\ UnrecognizedCode(s) =>
              /\ pc[s] \in {"idle", "error"}
              /\ calls[s] = 0
              /\ outbox[s] \in {<<ReplyBadLang>>} \cup Refused

\* C11 (amended): as above, but the reply points to the list of codes only
\* when a file is pending; with no file pending the reply asks for a file.
C11_ValidationPrecedesPipeline_Amended ==
    \A s \in Sessions :
        /\ (pc[s] = "start" \/ InJob(s)) =>
              RecognizedCode(s) /\ dest_lang[s] \in DOMAIN LANGUAGES
        /\ UnrecognizedCode(s) =>
              /\ pc[s] \in {"idle", "error"}
              /\ calls[s] = 0
              /\ outbox[s] \in
                    {IF HasFile(s) THEN <<ReplyBadLang>> ELSE <<ReplyNoFile>>}
                        \cup Refused

\* /translate with an unrecognized code and a file pending has been answered
C11_Witness ==
    \E s \in Sessions :
        UnrecognizedCode(s) /\ HasFile(s) /\ outbox[s] = <<ReplyBadLang>>

\* translate_text has just returned the original text of the current record
FellBack(s) ==
    /\ pc[s] = "pace"
    /\ translated_batch[s][Len(translated_batch[s])] =
           batch[s][Len(translated_batch[s])].text

\* C12: translate_text calls the translator at most max_retries times for a
\* text (its attempts are numbered 0 .. max_retries - 1), and returns the
\* original text only after max_retries failed attempts.
C12_RetryBudget ==
    \A s \in Sessions :
        /\ attempt[s] <= max_retries - 1
        /\ calls[s] <= Len(requests[s]) * max_retries
        /\ FellBack(s) =>
              attempt[s] = max_retries - 1 /\ failures[s] >= max_retries

\* a call for a text has failed with attempts left: no fallback yet
C12_Witness ==
    \E s \in Sessions :
        /\ pc[s] = "backoff"
        /\ calls[s] = 1
        /\ failures[s] = 1
        /\ translated_batch[s] = <<>>

\* C13: when the call for a text fails on attempts 1..k (1 <= k <
\* max_retries) and succeeds on attempt k + 1, translate_text returns the
\* translation of attempt k + 1.  Step by step: the wait that follows a failed
\* attempt with attempts left ends in the next attempt for the same text, with
\* no error; and an attempt that succeeds, the first or a later one, ends the
\* work on the text with exactly that one more call and its translation.
C13_RetryThenSuccess ==
    [][\A s \in Sessions :
          /\ (pc[s] = "backoff" /\ pc'[s] # "backoff") =>
                /\ pc'[s] = "call"
                /\ attempt'[s] = attempt[s] + 1
                /\ error'[s] = "none"
                /\ calls'[s] = calls[s]
          /\ (pc[s] = "call" /\ pc'[s] = "pace" /\ failures'[s] = failures[s]) =>
                /\ calls'[s] = calls[s] + 1
                /\ translated_batch'[s] =
                      Append(translated_batch[s],
                             translate(CurrentText(s), dest_lang[s]))]_vars

\* the backoff waits at the end of a log of sleeps: those of the text that
\* translate_text is working on
RECURSIVE TrailingBackoffs(_)
TrailingBackoffs(log) ==
    IF Len(log) = 0 \/ log[Len(log)].kind # "backoff" THEN <<>>
    ELSE Append(TrailingBackoffs(SubSeq(log, 1, Len(log) - 1)), log[Len(log)])

\* C14: for every text the n-th backoff wait lasts retry_delay * n, exactly n
\* waits have been made when attempt n + 1 starts (and when failed attempt
\* n + 1 has yet to be followed by its wait), and there are at most
\* max_retries - 1 of them: none after the last failed attempt.
C14_LinearBackoff ==
    \A s \in Sessions :
        LET waits == TrailingBackoffs(sleeps[s]) IN
        /\ \A n \in 1..Len(waits) : waits[n].tenths = 10 * retry_delay * n
        /\ Len(waits) <= max_retries - 1
        /\ pc[s] \in {"call", "backoff", "pace"} => Len(waits) = attempt[s]

\* the wait after the first failed attempt of a text has been made
C14_Witness ==
    \E s \in Sessions :
        /\ failures[s] = 1
        /\ sleeps[s] = <<[kind |-> "backoff", tenths |-> 10 * retry_delay]>>

PacingCount(log) == Cardinality({k \in 1..Len(log) : log[k].kind = "pacing"})

\* C15: a pacing sleep is made only once every text of the current batch has
\* been translated, so a job makes at most one pacing sleep per batch.
C15_PacingOnlyBetweenBatches ==
    \A s \in Sessions :
        /\ (/\ pc[s] \in {"raised", "call"}
            /\ Len(sleeps[s]) > 0
            /\ sleeps[s][Len(sleeps[s])].kind = "pacing")
           => Len(translated_batch[s]) = Len(batch[s])
        /\ PacingCount(sleeps[s]) <= (i[s] \div batch_size) + 1

\* the records of the job that have their result: those of the batches
\* already appended and those of the current batch
Settled(s) == Len(translated_subs[s]) + Len(translated_batch[s])

\* C16: translate_text is called for the records in input order, and the
\* first attempt for a record is made only once every earlier record has been
\* translated or has fallen back.
C16_StrictlySequential ==
    \A s \in Sessions :
        /\ requests[s] = [k \in 1..Len(requests[s]) |-> k]
        /\ Len(requests[s]) <= Len(subtitles[s])
        /\ Len(requests[s]) <= Settled(s) + 1
        /\ pc[s] = "pace" => Len(requests[s]) = Settled(s)

\* record 1 of a two-record job has its translation; record 2 has not begun
C16_Witness ==
    \E s \in Sessions :
        /\ pc[s] = "pace"
        /\ Len(subtitles[s]) = 2
        /\ requests[s] = <<1>>
        /\ Len(translated_batch[s]) = 1

\* C17: while a job is in a translator call, a backoff sleep or a pacing
\* sleep, the handlers of the other sessions can take their steps: an upload
\* or a /translate of an idle session, the next step of a started job.
C17_CooperativeSuspension ==
    \A s \in Sessions : \A t \in Sessions \ {s} :
        pc[s] \in {"call", "backoff", "pace"} =>
            /\ pc[t] = "idle" =>
                  /\ ENABLED handle_document(t)
                  /\ ENABLED (\E a \in ArgLists :
                                 \/ translate_command_no_file(t, a)
                                 \/ translate_command_no_args(t, a)
                                 \/ translate_command_bad_lang(t, a)
                                 \/ translate_command_start(t, a))
            /\ pc[t] = "get_file" => ENABLED handle_document_get_file(t)
            /\ pc[t] = "start" => ENABLED StartJob(t)

\* What a session's handler owns: its user_data, its position, its replies and
\* the locals of its pipeline and translator instance.
SessionState(s) ==
    <<user_data[s], pc[s], outbox[s], dest_lang[s], subtitles[s], i[s],
      batch[s], translated_batch[s], translated_subs[s], attempt[s], error[s],
      translated_file[s]>>

\* The files a job can return for records subs and language d: each text is
\* the translator's result for that text, or the text itself after a fallback.
OwnOutputs(subs, d) ==
    { create_srt([k \in 1..Len(subs) |->
                     [subs[k] EXCEPT !.text = IF k \in F THEN @
                                                       ELSE translate(@, d)]]) :
        F \in SUBSET (1..Len(subs)) }

OwnInputsOnly(s) ==
    LET own  == parse_srt(user_data[s]["file"]).value
        lang == Lower(context_args[s][1])
    IN  /\ InJob(s) =>
            /\ subtitles[s] = own
            /\ dest_lang[s] = lang
            /\ \A k \in 1..Len(translated_batch[s]) :
                  translated_batch[s][k] \in
                      {batch[s][k].text, translate(batch[s][k].text, lang)}
            /\ pc[s] \in {"call", "backoff", "pace"} =>
                  \A k \in 1..Len(batch[s]) : batch[s][k] = own[i[s] + k]
            /\ \A k \in 1..Len(translated_subs[s]) :
                  translated_subs[s][k].text \in
                      {own[k].text, translate(own[k].text, lang)}
        /\ (pc[s] = "idle" /\ Len(outbox[s]) = 2
                           /\ outbox[s][2].type = "document") =>
            /\ outbox[s][2].document \in OwnOutputs(own, lang)
            /\ outbox[s][2] =
                  ReplyFile(outbox[s][2].document, lang, LANGUAGES[lang])

\* C18: under any interleaving of two sessions' jobs, a job works on its own
\* file, its own language and the translator's results for its own texts, the
\* document it sends is made of these alone, and no step changes the state of
\* two sessions at once.
C18_JobIndependence ==
    /\ [](\A s \in Sessions : OwnInputsOnly(s))
    /\ [][\A s \in Sessions : \A t \in Sessions \ {s} :
             SessionState(s)' # SessionState(s) =>
                 SessionState(t)' = SessionState(t)]_vars

C18_Witness ==
    \E s \in Sessions : \E t \in Sessions \ {s} :
        /\ pc[s] = "idle"
        /\ Len(outbox[s]) = 2
        /\ outbox[s][2].type = "document"
        /\ pc[t] = "start"
        /\ user_data[t]["file"] # user_data[s]["file"]
        /\ dest_lang[t] # Lower(context_args[s][1])

\* uploaded[s] is the file of the session's latest upload, <<>> before the
\* first one.
PendingIsLatestUpload(s) ==
    /\ HasFile(s) <=> uploaded[s] # <<>>
    /\ HasFile(s) => user_data[s] = [k \in {"file"} |-> uploaded[s][1]]
    /\ ~HasFile(s) => /\ pc[s] # "start" /\ ~InJob(s)
                      /\ outbox[s] \in {<<ReplyNoFile>>, <<ReplyHelp>>,
                                        <<ReplyLangs>>} \cup Refused
    /\ InJob(s) => subtitles[s] = parse_srt(uploaded[s][1]).value

\* C19: a session holds at most one pending file, the one of its latest upload.
\* Without a file /translate only asks for one; a job works on the latest
\* upload; user_data changes only when an upload is handled, which stores the
\* new file in place of the old one; a job, ended well or not, leaves it alone.
C19_SinglePendingFile ==
    /\ [](\A s \in Sessions : PendingIsLatestUpload(s))
    /\ [][\A s \in Sessions :
             /\ user_data[s]' # user_data[s] =>
                   /\ pc[s] = "download" /\ pc[s]' \in {"idle", "error"}
                   /\ outbox[s]' \in {<<ReplyReceived>>, <<>>}
                   /\ \E f \in Uploads : user_data[s]' = [k \in {"file"} |-> f]
             /\ outbox[s]' = <<ReplyReceived>> =>
                   user_data[s]' = [k \in {"file"} |-> uploaded[s][1]']
             /\ pc[s]' = "start" => HasFile(s)]_vars

C19_Witness ==
    \E s \in Sessions : \E t \in Sessions \ {s} :
        /\ pc[s] = "idle"
        /\ Len(outbox[s]) = 2
        /\ outbox[s][2] = ReplyFailed
        /\ user_data[s] = [k \in {"file"} |-> uploaded[s][1]]
        /\ Len(parse_srt(uploaded[s][1]).value) = 2
        /\ pc[t] = "idle"
        /\ Len(outbox[t]) = 2
        /\ outbox[t][2].type = "document"
        /\ user_data[t] = [k \in {"file"} |-> uploaded[t][1]]

\* C20: whatever the translator answers, a started job ends, translate_srt
\* returning its file or raising its error, and by then it has made at most
\* len(records) * max_retries translator calls.
C20_Termination ==
    /\ [](\A s \in Sessions : calls[s] <= Len(subtitles[s]) * max_retries)
    /\ \A s \in Sessions : (pc[s] = "start") ~> (pc[s] \in {"caught", "send"})

C20_Witness ==
    \E s \in Sessions :
        /\ pc[s] = "caught"
        /\ Len(subtitles[s]) = 2
        /\ calls[s] = 1
        /\ failures[s] = 1

====
